---- MODULE Spec2Model ----
(***************************************************************************)
(* Model of src/sweep.py: the followed-entity registry of class Sweep, the *)
(* schema built by _create_measurement, the lock-in autorange loop         *)
(* _autorange_srs, and the three run modes sweep, watch and megasweep,     *)
(* statement by statement, with the instruments, the clock and the         *)
(* KeyboardInterrupt signal as the environment.                            *)
(*                                                                         *)
(* Entity identities are tuples of strings: <<p>> for a parameter handle,  *)
(* <<l, "X">> / <<l, "Y">> for the X and Y parameters of a lock-in,        *)
(* <<"time">> for the custom parameter 'time' and <<"fbl_c", c, sfx>> for  *)
(* the f-string f'fbl_c{c}{sfx}'.                                          *)
(***************************************************************************)
EXTENDS Integers, Sequences, FiniteSets, TLC

\* ---------------------------------------------------------------- bounds
MaxVals == 2          \* longest value sequence handed to sweep / megasweep
MaxFollow == 2        \* most entities followed before a run
MaxWatchSteps == 2    \* most records an unbounded watch is followed for
MaxClock == 4         \* the clock is followed up to this reading
MaxArg == 2           \* largest max_duration and max_changes argument tried

\* ------------------------------------------------------ program constants
SweepMaxChanges == 3  \* _autorange_srs(l, 3) at the three call sites
HighTenths == 9       \* r > 0.9 * sens
LowTenths == 1        \* r < 0.1 * sens
SettleFactor == 10    \* time.sleep(10 * time_constant)

\* ------------------------------------------------------------ environment
None == "None"                 \* None where a handle or a label is expected
Unset == 0 - 1                 \* None where a number is expected
NoGains == << >>               \* None where a list of gains is expected
ParamIds == {"p1"}
LockinIds == {"l1"}
Gains == {1, 2}                \* gains of a followed parameter
LockinGains == {2}             \* gains of a followed lock-in
Setpoints == {1, 2}
ChannelLists == {<<"0", "1">>}
GainLists == {NoGains, <<2, 2>>}
RawVals == {4}                 \* what p.get() may return
SnapVals == {<<4, 8>>}         \* what l.snap('x', 'y') may return
FblVals == {<<8, 90>>}         \* the (r, theta) get_v_in may return per channel
RVals == {0, 5, 10}            \* what srs.R.get() may return
SensVals == {10}               \* what srs.sensitivity.get() may return
TimeConstantTenths == {1}      \* srs.time_constant.get(), in tenths of a clock unit
WatchDelays == {Unset, 1, 2}   \* inter_delay arguments tried with watch
SweepDelays == {Unset, 1}      \* inter_delay arguments tried with sweep
MegaDelays == {Unset}          \* inter_delay arguments tried with megasweep
MegaSeqs == {<< >>, <<2>>, <<1, 2>>, <<2, 1>>}  \* v_fast and v_slow tried with megasweep

ListType == "list"             \* the type object that 'p is list' compares with
ListObjs == {"[FBL, 0, 1]"}    \* list instances passed in params of sweep1d
NameGain == 0 - 2              \* a lock-in's name (a string) where a gain goes
DefaultGain == 1               \* follow_param(p, gain=1.0)
Sweep1dParams ==               \* params arguments tried with sweep1d
    {<<"p1">>, <<"l1">>, <<"[FBL, 0, 1]">>, <<"l1", "p1">>, <<"list">>}
Sweep1dRanges == {<<1, 1, 1>>, <<1, 3, 1>>}  \* start, end, step tried with sweep1d
Sweep1dDelays == {Unset}       \* delay arguments tried with sweep1d

ValSeqs == UNION {[1..n -> Setpoints] : n \in 0..MaxVals}
OptArgs == {Unset} \cup (0..MaxArg)

VARIABLES
    params,        \* self._params: sequence of <<p, gain>>
    sr830s,        \* self._sr830s: sequence of <<l, gain, autorange>>
    fbl,           \* self._fbl: None or the multiplexer handle
    fbl_channels,  \* self._fbl_channels
    fbl_gains,     \* self._fbl_gains: None or a sequence of gains
    mode,          \* the method running: "idle", "sweep", "watch", "megasweep", "autorange"
    pc,            \* the statement about to execute
    args,          \* the arguments of the running method
    loop,          \* loop positions: [slow, fast, p, l]
    now,           \* the monotonic clock
    t0,            \* local t0: Unset while unbound
    t,             \* local t
    data,          \* local data: the record being composed
    schema,        \* the Measurement built by _create_measurement
    session,       \* the datasaver: [state, opens, closes, results]
    ar,            \* _autorange_srs frame: [state, max, sets, ret] and the
                   \*   history of the call [reqs, allHigh, last]
    outcome,       \* how the call ended: [state, raised, elapsed]
    ghost          \* history kept for the properties: [tInit, settled, cut,
                   \* sets, slowSets, inForce, slowInForce, raw, raws]

vars == <<params, sr830s, fbl, fbl_channels, fbl_gains, mode, pc, args, loop,
          now, t0, t, data, schema, session, ar, outcome, ghost>>

registry == <<params, sr830s, fbl, fbl_channels, fbl_gains>>

\* ---------------------------------------------------------------- helpers
\* time.monotonic() when the clock reads n: the clock advances while the
\* program sleeps, the other statements take no time.
Monotonic(n) == n

\* time.sleep(d)
Sleep(n, d) == n + d

\* 10 * srs.time_constant.get(), the time constant given in tenths
SettleTime(tc) == (SettleFactor * tc) \div 10

\* f'fbl_c{c}_x', f'fbl_c{c}_p', f'fbl_c{c}_r'
FblId(c, sfx) == <<"fbl_c", c, sfx>>
TimeId == <<"time">>
ParamId(p) == <<p>>
XId(l) == <<l, "X">>
YId(l) == <<l, "Y">>

\* A reading recorded as read, whatever the gain
M_ScaleIgnoresGain(v, gain) == v

\* v / gain (the readings of the model are multiples of the gains)
Scale(v, gain) == v \div gain

RECURSIVE Flatten(_)
Flatten(ss) == IF ss = << >> THEN << >> ELSE Head(ss) \o Flatten(Tail(ss))

\* ----------------------------------------------------------------- Init
NoArgs == [set_param |-> None, vals |-> << >>, s_fast |-> None, v_fast |-> << >>,
           s_slow |-> None, v_slow |-> << >>, inter_delay |-> Unset,
           max_duration |-> Unset, srs |-> None, max_changes |-> 0,
           params |-> << >>]

NoFrame == [state |-> "idle", max |-> 0, sets |-> 0, ret |-> "none",
            reqs |-> 0, allHigh |-> TRUE, last |-> "none"]

\* Sweep.__init__
Init ==
    /\ params = << >>
    /\ sr830s = << >>
    /\ fbl = None
    /\ fbl_channels = << >>
    /\ fbl_gains = NoGains
    /\ mode = "idle"
    /\ pc = "idle"
    /\ args = NoArgs
    /\ loop = [i |-> 0, j |-> 0, p |-> 0, l |-> 0]
    /\ now = 0
    /\ t0 = Unset
    /\ t = Unset
    /\ data = << >>
    /\ schema = << >>
    /\ session = [state |-> "none", opens |-> 0, closes |-> 0, strays |-> 0,
                  results |-> << >>]
    /\ ar = NoFrame
    /\ outcome = [state |-> "idle", raised |-> None, elapsed |-> Unset]
    /\ ghost = [tInit |-> Unset, settled |-> FALSE, cut |-> None,
                sets |-> 0, slowSets |-> 0,
                inForce |-> Unset, slowInForce |-> Unset,
                raw |-> << >>, raws |-> << >>]

\* ------------------------------------------------------------- registry
\* The entities followed so far.
Followed == Len(params) + Len(sr830s) + (IF fbl = None THEN 0 ELSE 1)

\* follow_param(p, gain)
FollowParam(p, gain) ==
    /\ pc = "idle"
    /\ Followed < MaxFollow
    /\ params' = Append(params, <<p, gain>>)
    /\ UNCHANGED <<sr830s, fbl, fbl_channels, fbl_gains, mode, pc, args, loop,
                   now, t0, t, data, schema, session, ar, outcome, ghost>>

\* follow_sr830(l, gain, autorange)
FollowSr830(l, gain, autorange) ==
    /\ pc = "idle"
    /\ Followed < MaxFollow
    /\ sr830s' = Append(sr830s, <<l, gain, autorange>>)
    /\ UNCHANGED <<params, fbl, fbl_channels, fbl_gains, mode, pc, args, loop,
                   now, t0, t, data, schema, session, ar, outcome, ghost>>

\* follow_fbl(fbl, channels, gains): replaces the channel set followed before
FollowFbl(f, channels, gains) ==
    /\ pc = "idle"
    /\ Len(params) + Len(sr830s) < MaxFollow
    /\ fbl' = f
    /\ fbl_channels' = channels
    /\ fbl_gains' = gains
    /\ UNCHANGED <<params, sr830s, mode, pc, args, loop,
                   now, t0, t, data, schema, session, ar, outcome, ghost>>

\* ---------------------------------------------------------------- schema
\* One registration: the identity and the setpoints it is indexed by.
Reg(id, setpoints) == [id |-> id, setpoints |-> setpoints]

SchemaSetpoints(set_params) == [k \in 1..Len(set_params) |-> ParamId(set_params[k])] \o <<TimeId>>

\* Sweep._create_measurement(*set_params)
CreateMeasurement(set_params) ==
    [k \in 1..Len(set_params) |-> Reg(ParamId(set_params[k]), << >>)]
    \o <<Reg(TimeId, << >>)>>
    \o [k \in 1..Len(params) |-> Reg(ParamId(params[k][1]), SchemaSetpoints(set_params))]
    \o Flatten([k \in 1..Len(sr830s) |->
                  <<Reg(XId(sr830s[k][1]), SchemaSetpoints(set_params)),
                    Reg(YId(sr830s[k][1]), SchemaSetpoints(set_params))>>])
    \o Flatten([k \in 1..Len(fbl_channels) |->
                  <<Reg(FblId(fbl_channels[k], "_x"), << >>),
                    Reg(FblId(fbl_channels[k], "_p"), << >>)>>])

\* ------------------------------------------------------------ invocation
locals == <<loop, now, t0, t, data, schema, session, ar, ghost>>

\* sweep(set_param, vals, inter_delay): the call, up to the try statement
StartSweep(set_param, vals, inter_delay) ==
    /\ pc = "idle"
    /\ mode' = "sweep"
    /\ args' = [NoArgs EXCEPT !.set_param = set_param, !.vals = vals,
                              !.inter_delay = inter_delay]
    /\ pc' = "create"
    /\ outcome' = [outcome EXCEPT !.state = "running"]
    /\ UNCHANGED <<registry, locals>>

\* isinstance(p, SR830)
IsSR830(p) == p \in LockinIds

\* The elements of the list object p, the multiplexer first.
Items(p) == IF p \in ListObjs THEN <<"FBL", "0", "1">> ELSE << >>

\* p is list: 'is' compares p with the type object list itself, which no
\* list instance is
IsList(p) == p = ListType

\* np.arange(start, end, step) for a positive step
Arange(start, end, step) ==
    LET n == IF end > start THEN (end - start + step - 1) \div step ELSE 0
    IN [k \in 1..n |-> start + (k - 1) * step]

\* for p in params: the registry of the fresh Sweep after the elements ps,
\* starting from reg. When p is the type object, 'and' goes on to
\* p[0].name, which raises (list[0] has no attribute name), so the
\* follow_fbl call of line 195 is never reached.
RECURSIVE Classify(_, _)
Classify(reg, ps) ==
    IF ps = << >> \/ reg.raised # None THEN reg
    ELSE LET p == Head(ps) IN
         Classify(IF IsSR830(p)
                    THEN [reg EXCEPT !.sr830s = Append(@, <<p, NameGain, TRUE>>)]
                  ELSE IF IsList(p)
                    THEN [reg EXCEPT !.raised = "AttributeError"]
                  ELSE [reg EXCEPT !.params = Append(@, <<p, DefaultGain>>)],
                  Tail(ps))

\* s = Sweep()
FreshSweep == [params |-> << >>, sr830s |-> << >>, raised |-> None]

\* sweep1d(instr, start, end, step, delay, params): a fresh Sweep, the
\* elements of params classified into it, then s.sweep(instr, arange, delay)
Sweep1d(instr, start, end, step, delay, ps) ==
    /\ pc = "idle"
    /\ Followed = 0
    /\ LET reg == Classify(FreshSweep, ps) IN
         /\ params' = reg.params
         /\ sr830s' = reg.sr830s
         /\ args' = [NoArgs EXCEPT !.set_param = instr,
                                   !.vals = Arange(start, end, step),
                                   !.inter_delay = delay, !.params = ps]
         /\ IF reg.raised = None
              THEN /\ mode' = "sweep"
                   /\ pc' = "create"
                   /\ outcome' = [outcome EXCEPT !.state = "running"]
              ELSE /\ mode' = "sweep1d"
                   /\ pc' = "raised"
                   /\ outcome' = [outcome EXCEPT !.state = "crashed",
                                                  !.raised = reg.raised]
    /\ UNCHANGED <<fbl, fbl_channels, fbl_gains, locals>>

\* watch(max_duration, inter_delay): the call, up to the try statement
StartWatch(max_duration, inter_delay) ==
    /\ pc = "idle"
    /\ mode' = "watch"
    /\ args' = [NoArgs EXCEPT !.max_duration = max_duration,
                              !.inter_delay = inter_delay]
    /\ pc' = "create"
    /\ outcome' = [outcome EXCEPT !.state = "running"]
    /\ UNCHANGED <<registry, locals>>

\* megasweep(s_fast, v_fast, s_slow, v_slow, inter_delay): the call
StartMegasweep(s_fast, v_fast, s_slow, v_slow, inter_delay) ==
    /\ pc = "idle"
    /\ mode' = "megasweep"
    /\ args' = [NoArgs EXCEPT !.s_fast = s_fast, !.v_fast = v_fast,
                              !.s_slow = s_slow, !.v_slow = v_slow,
                              !.inter_delay = inter_delay]
    /\ pc' = "t0"
    /\ outcome' = [outcome EXCEPT !.state = "running"]
    /\ UNCHANGED <<registry, locals>>

\* The frame of a call _autorange_srs(srs, max_changes) returning to ret.
Frame(max_changes, ret) == [NoFrame EXCEPT !.state = "running", !.max = max_changes,
                                           !.ret = ret]

\* _autorange_srs(srs, max_changes) called on its own
StartAutorange(srs, max_changes) ==
    /\ pc = "idle"
    /\ mode' = "autorange"
    /\ args' = [NoArgs EXCEPT !.srs = srs, !.max_changes = max_changes]
    /\ ar' = Frame(max_changes, "returned")
    /\ pc' = "ar_check"
    /\ outcome' = [outcome EXCEPT !.state = "running"]
    /\ UNCHANGED <<registry, loop, now, t0, t, data, schema, session, ghost>>

\* ------------------------------------------------------- run: the prologue
\* The independent entities handed to _create_measurement by each mode.
SetParams ==
    CASE mode = "sweep" -> <<args.set_param>>
      [] mode = "watch" -> << >>
      [] mode = "megasweep" -> <<args.s_fast, args.s_slow>>
      [] OTHER -> << >>

\* meas = self._create_measurement(...)
Create ==
    /\ pc = "create"
    /\ schema' = CreateMeasurement(SetParams)
    /\ pc' = "open"
    /\ UNCHANGED <<registry, mode, args, loop, now, t0, t, data, session,
                   ar, outcome, ghost>>

\* with meas.run() as datasaver: the session is entered
Open ==
    /\ pc = "open"
    /\ session' = [session EXCEPT !.state = "open", !.opens = @ + 1]
    /\ pc' = IF mode = "megasweep" THEN "for_slow" ELSE "t0"
    /\ UNCHANGED <<registry, mode, args, loop, now, t0, t, data, schema,
                   ar, outcome, ghost>>

\* t0 = time.monotonic()
ReadT0 ==
    /\ pc = "t0"
    /\ t0' = Monotonic(now)
    /\ pc' = CASE mode = "sweep" -> "for"
               [] mode = "watch" -> "tinit"
               [] OTHER -> "create"
    /\ UNCHANGED <<registry, mode, args, loop, now, t, data, schema, session,
                   ar, outcome, ghost>>

\* watch: t = time.monotonic() - t0, before the loop
WatchInitT ==
    /\ pc = "tinit"
    /\ t' = Monotonic(now) - t0
    /\ ghost' = [ghost EXCEPT !.tInit = Monotonic(now) - t0]
    /\ pc' = "while"
    /\ UNCHANGED <<registry, mode, args, loop, now, t0, data, schema, session,
                   ar, outcome>>

\* ---------------------------------------------------------- run: the loops
\* SweepFor stopping one value early
M_SweepForStopsEarly ==
    /\ pc = "for"
    /\ mode = "sweep"
    /\ IF loop.i < Len(args.vals) - 1
         THEN /\ loop' = [loop EXCEPT !.i = @ + 1]
              /\ pc' = "t"
         ELSE /\ pc' = "close"
              /\ UNCHANGED loop
    /\ UNCHANGED <<registry, mode, args, now, t0, t, data, schema, session,
                   ar, outcome, ghost>>

\* sweep: for setpoint in vals
SweepFor ==
    /\ pc = "for"
    /\ mode = "sweep"
    /\ IF loop.i < Len(args.vals)
         THEN /\ loop' = [loop EXCEPT !.i = @ + 1]
              /\ pc' = "t"
         ELSE /\ pc' = "close"
              /\ UNCHANGED loop
    /\ UNCHANGED <<registry, mode, args, now, t0, t, data, schema, session,
                   ar, outcome, ghost>>

\* WatchGuard letting the iteration at t = max_duration run
M_WatchGuardInclusive(max_duration, tt) == max_duration = Unset \/ tt <= max_duration

\* watch: the loop condition  max_duration is None or t < max_duration
WatchGuard(max_duration, tt) == max_duration = Unset \/ tt < max_duration

\* watch: while max_duration is None or t < max_duration
WatchWhile ==
    /\ pc = "while"
    /\ IF WatchGuard(args.max_duration, t)
         THEN /\ loop.i < MaxWatchSteps
              /\ loop' = [loop EXCEPT !.i = @ + 1]
              /\ pc' = "t"
         ELSE /\ pc' = "close"
              /\ UNCHANGED loop
    /\ UNCHANGED <<registry, mode, args, now, t0, t, data, schema, session,
                   ar, outcome, ghost>>

\* MegaForSlow that does not restart the inner loop
M_MegaForSlowKeepsFast ==
    /\ pc = "for_slow"
    /\ IF loop.i < Len(args.v_slow)
         THEN /\ loop' = [loop EXCEPT !.i = @ + 1]
              /\ pc' = "set_slow"
         ELSE /\ pc' = "close"
              /\ UNCHANGED loop
    /\ UNCHANGED <<registry, mode, args, now, t0, t, data, schema, session,
                   ar, outcome, ghost>>

\* megasweep: for sp_slow in v_slow
MegaForSlow ==
    /\ pc = "for_slow"
    /\ IF loop.i < Len(args.v_slow)
         THEN /\ loop' = [loop EXCEPT !.i = @ + 1, !.j = 0]
              /\ pc' = "set_slow"
         ELSE /\ pc' = "close"
              /\ UNCHANGED loop
    /\ UNCHANGED <<registry, mode, args, now, t0, t, data, schema, session,
                   ar, outcome, ghost>>

\* The slow entity set on the first row only
M_MegaSetSlowFirstRowOnly ==
    /\ pc = "set_slow"
    /\ IF loop.i = 1
         THEN ghost' = [ghost EXCEPT !.slowInForce = args.v_slow[loop.i],
                                     !.slowSets = @ + 1]
         ELSE UNCHANGED ghost
    /\ pc' = "for"
    /\ UNCHANGED <<registry, mode, args, loop, now, t0, t, data, schema,
                   session, ar, outcome>>

\* megasweep: s_slow.set(sp_slow)
MegaSetSlow ==
    /\ pc = "set_slow"
    /\ ghost' = [ghost EXCEPT !.slowInForce = args.v_slow[loop.i],
                              !.slowSets = @ + 1]
    /\ pc' = "for"
    /\ UNCHANGED <<registry, mode, args, loop, now, t0, t, data, schema,
                   session, ar, outcome>>

\* megasweep: for sp_fast in v_fast
MegaForFast ==
    /\ pc = "for"
    /\ mode = "megasweep"
    /\ IF loop.j < Len(args.v_fast)
         THEN /\ loop' = [loop EXCEPT !.j = @ + 1]
              /\ pc' = "t"
         ELSE /\ pc' = "for_slow"
              /\ UNCHANGED loop
    /\ UNCHANGED <<registry, mode, args, now, t0, t, data, schema, session,
                   ar, outcome, ghost>>

\* ----------------------------------------------------------- run: one step
\* The order in which each mode samples after the delay.
SweepOrder == <<"fbl", "params", "lockins", "add">>
WatchOrder == <<"params", "lockins", "fbl", "add">>
MegaOrder == <<"params", "lockins", "add">>

StepOrder(m) ==
    CASE m = "sweep" -> SweepOrder
      [] m = "watch" -> WatchOrder
      [] OTHER -> MegaOrder

\* The phase that follows phase ph in mode m.
After(m, ph) ==
    LET k == CHOOSE n \in 1..Len(StepOrder(m)) : StepOrder(m)[n] = ph
    IN StepOrder(m)[k + 1]

\* The loop head the step returns to.
LoopHead(m) == IF m = "watch" THEN "while" ELSE "for"

\* t = time.monotonic() - t0
ReadT ==
    /\ pc = "t"
    /\ t' = Monotonic(now) - t0
    /\ pc' = IF mode = "watch" THEN "delay" ELSE "set"
    /\ UNCHANGED <<registry, mode, args, loop, now, t0, data, schema, session,
                   ar, outcome, ghost>>

\* The step moves on without the set call
M_SetParamSkipped ==
    /\ pc = "set"
    /\ pc' = "delay"
    /\ UNCHANGED <<registry, mode, args, loop, now, t0, t, data, schema,
                   session, ar, outcome, ghost>>

\* set_param.set(setpoint) / s_fast.set(sp_fast)
SetParam ==
    /\ pc = "set"
    /\ ghost' = [ghost EXCEPT
                   !.inForce = IF mode = "sweep" THEN args.vals[loop.i]
                                                 ELSE args.v_fast[loop.j],
                   !.sets = @ + 1]
    /\ pc' = "delay"
    /\ UNCHANGED <<registry, mode, args, loop, now, t0, t, data, schema,
                   session, ar, outcome>>

\* data = [(set_param, setpoint), ('time', t)] and its two variants
Header ==
    CASE mode = "sweep" ->
           <<<<ParamId(args.set_param), args.vals[loop.i]>>, <<TimeId, t>>>>
      [] mode = "watch" ->
           <<<<TimeId, t>>>>
      [] OTHER ->
           <<<<ParamId(args.s_slow), args.v_slow[loop.i]>>,
             <<ParamId(args.s_fast), args.v_fast[loop.j]>>, <<TimeId, t>>>>

\* What the entries of Header stand for: the values last applied to the set
\* entities by their set calls, and the clock reading of the step.
InForce ==
    CASE mode = "sweep" -> <<ghost.inForce, t>>
      [] mode = "watch" -> <<t>>
      [] OTHER -> <<ghost.slowInForce, ghost.inForce, t>>

\* if inter_delay is not None: time.sleep(inter_delay); then data = [...]
Delay ==
    /\ pc = "delay"
    /\ IF args.inter_delay # Unset
         THEN /\ Sleep(now, args.inter_delay) <= MaxClock
              /\ now' = Sleep(now, args.inter_delay)
         ELSE UNCHANGED now
    /\ data' = Header
    /\ ghost' = [ghost EXCEPT !.raw = InForce]
    /\ loop' = [loop EXCEPT !.p = 0, !.l = 0]
    /\ pc' = StepOrder(mode)[1]
    /\ UNCHANGED <<registry, mode, args, t0, t, schema, session, ar,
                   outcome>>

\* The pairs one channel adds: r divided by its gain when gains are given.
FblPairs(k, reading) ==
    LET r == IF fbl_gains # NoGains THEN Scale(reading[1], fbl_gains[k]) ELSE reading[1]
    IN <<<<FblId(fbl_channels[k], "_r"), r>>, <<FblId(fbl_channels[k], "_p"), reading[2]>>>>

\* if self._fbl is not None: d = get_v_in(channels); extend data per channel
ReadFbl ==
    /\ pc = "fbl"
    /\ IF fbl # None
         THEN \E d \in [1..Len(fbl_channels) -> FblVals] :
                /\ data' = data \o Flatten([k \in 1..Len(fbl_channels) |-> FblPairs(k, d[k])])
                /\ ghost' = [ghost EXCEPT !.raw =
                               @ \o Flatten([k \in 1..Len(fbl_channels) |-> d[k]])]
         ELSE UNCHANGED <<data, ghost>>
    /\ pc' = After(mode, "fbl")
    /\ UNCHANGED <<registry, mode, args, loop, now, t0, t, schema, session,
                   ar, outcome>>

\* for (p, gain) in self._params: v = p.get(); v = v / gain; data.append((p, v))
ReadParams ==
    /\ pc = "params"
    /\ IF loop.p < Len(params)
         THEN /\ params[loop.p + 1][1] \notin ListObjs
              /\ \E v \in RawVals :
                   /\ data' = Append(data, <<ParamId(params[loop.p + 1][1]),
                                             Scale(v, params[loop.p + 1][2])>>)
                   /\ ghost' = [ghost EXCEPT !.raw = Append(@, v)]
              /\ loop' = [loop EXCEPT !.p = @ + 1]
              /\ UNCHANGED pc
         ELSE /\ pc' = After(mode, "params")
              /\ UNCHANGED <<data, loop, ghost>>
    /\ UNCHANGED <<registry, mode, args, now, t0, t, schema, session, ar,
                   outcome>>

\* for (l, gain, autorange) in self._sr830s: if autorange: _autorange_srs(l, 3)
Lockins ==
    /\ pc = "lockins"
    /\ IF loop.l < Len(sr830s)
         THEN /\ loop' = [loop EXCEPT !.l = @ + 1]
              /\ IF sr830s[loop.l + 1][3]
                   THEN /\ ar' = Frame(SweepMaxChanges, "snap")
                        /\ pc' = "ar_check"
                   ELSE /\ pc' = "snap"
                        /\ UNCHANGED ar
         ELSE /\ pc' = After(mode, "lockins")
              /\ UNCHANGED <<loop, ar>>
    /\ UNCHANGED <<registry, mode, args, now, t0, t, data, schema, session,
                   outcome, ghost>>

\* x, y = l.snap('x', 'y'); x, y = x / gain, y / gain; data.extend([(l.X, x), (l.Y, y)])
Snap ==
    /\ pc = "snap"
    /\ sr830s[loop.l][2] # NameGain
    /\ \E xy \in SnapVals :
         /\ data' = data \o <<<<XId(sr830s[loop.l][1]), Scale(xy[1], sr830s[loop.l][2])>>,
                              <<YId(sr830s[loop.l][1]), Scale(xy[2], sr830s[loop.l][2])>>>>
         /\ ghost' = [ghost EXCEPT !.raw = @ \o xy]
    /\ ar' = NoFrame
    /\ pc' = "lockins"
    /\ UNCHANGED <<registry, mode, args, loop, now, t0, t, schema, session,
                   outcome>>

\* datasaver.add_result(*data)
AddResult ==
    /\ pc = "add"
    /\ session' = [session EXCEPT
                     !.results = Append(@, data),
                     !.strays = IF session.state = "open" THEN @ ELSE @ + 1]
    /\ ghost' = [ghost EXCEPT !.raws = Append(@, ghost.raw)]
    /\ pc' = LoopHead(mode)
    /\ UNCHANGED <<registry, mode, args, loop, now, t0, t, data, schema,
                   ar, outcome>>

\* ------------------------------------------------------- _autorange_srs
\* autorange_once: which branch the readings r and sens select
Band(r, sens) ==
    IF 10 * r > HighTenths * sens THEN "high"
    ELSE IF 10 * r < LowTenths * sens THEN "low"
    ELSE "in"

\* the loop condition  autorange_once() and sets < max_changes
LoopContinues(ok, sets, max_changes) == ok /\ sets < max_changes

\* the frame when _autorange_srs returns, the last check having ended as `last`
Returned(f, last) == [f EXCEPT !.state = "returned", !.last = last]

\* how the method that called _autorange_srs goes on when it returns
ArReturn ==
    /\ pc' = ar.ret
    /\ outcome' = IF mode = "autorange" THEN [outcome EXCEPT !.state = "completed"]
                  ELSE outcome

\* autorange_once: r = srs.R.get(); sens = srs.sensitivity.get() and the
\* branch taken; in band, autorange_once returns False and the loop ends
ArCheck ==
    /\ pc = "ar_check"
    /\ \E r \in RVals, sens \in SensVals :
         LET b == Band(r, sens)
             f == [ar EXCEPT !.allHigh = @ /\ b = "high"]
         IN CASE b = "high" -> /\ ar' = f
                               /\ pc' = "ar_inc"
                               /\ UNCHANGED outcome
              [] b = "low" -> /\ ar' = f
                              /\ pc' = "ar_dec"
                              /\ UNCHANGED outcome
              [] OTHER -> /\ ar' = Returned(f, "in_band")
                          /\ ArReturn
    /\ UNCHANGED <<registry, mode, args, loop, now, t0, t, data, schema,
                   session, ghost>>

\* the while statement once autorange_once has returned ok
ArLoop(f, ok) ==
    IF LoopContinues(ok, f.sets, f.max)
      THEN /\ ar' = [f EXCEPT !.sets = @ + 1]
           /\ pc' = "ar_sleep"
           /\ UNCHANGED outcome
      ELSE /\ ar' = Returned(f, IF ok THEN "exhausted" ELSE "rejected")
           /\ ArReturn

\* return srs.increment_sensitivity()
ArIncrement ==
    /\ pc = "ar_inc"
    /\ \E ok \in BOOLEAN :
         ArLoop([ar EXCEPT !.reqs = @ + 1, !.allHigh = @ /\ ok], ok)
    /\ UNCHANGED <<registry, mode, args, loop, now, t0, t, data, schema,
                   session, ghost>>

\* return srs.decrement_sensitivity()
ArDecrement ==
    /\ pc = "ar_dec"
    /\ \E ok \in BOOLEAN :
         ArLoop([ar EXCEPT !.reqs = @ + 1], ok)
    /\ UNCHANGED <<registry, mode, args, loop, now, t0, t, data, schema,
                   session, ghost>>

\* time.sleep(10*srs.time_constant.get())
ArSettle ==
    /\ pc = "ar_sleep"
    /\ \E tc \in TimeConstantTenths :
         /\ Sleep(now, SettleTime(tc)) <= MaxClock
         /\ now' = Sleep(now, SettleTime(tc))
    /\ ghost' = [ghost EXCEPT !.settled = TRUE]
    /\ pc' = "ar_check"
    /\ UNCHANGED <<registry, mode, args, loop, t0, t, data, schema,
                   session, ar, outcome>>

\* ------------------------------------------------------- run: the epilogue
\* Exited without the with statement's release: the session stays as it is
M_ExitedLeavesOpen(ses) == ses

\* leaving the with block: the datasaver is closed if it was entered
Exited(ses) ==
    IF ses.state = "open"
      THEN [ses EXCEPT !.state = "closed", !.closes = @ + 1]
      ELSE ses

\* print(f'Completed in: {_sec_to_str(time.monotonic() - t0)}') after the try
\* statement: reading t0 while it is unbound raises UnboundLocalError
Reported(o) ==
    IF t0 = Unset
      THEN [o EXCEPT !.raised = "UnboundLocalError"]
      ELSE [o EXCEPT !.elapsed = Monotonic(now) - t0]

\* the loop is over: the with block is left and the duration is printed
Close ==
    /\ pc = "close"
    /\ session' = Exited(session)
    /\ outcome' = Reported([outcome EXCEPT !.state = "completed"])
    /\ pc' = IF t0 = Unset THEN "raised" ELSE "returned"
    /\ UNCHANGED <<registry, mode, args, loop, now, t0, t, data, schema,
                   ar, ghost>>

\* ----------------------------------------------------------- environment
RunModes == {"sweep", "watch", "megasweep"}
ArPcs == {"ar_check", "ar_inc", "ar_dec", "ar_sleep"}
StepPcs == {"t", "set", "delay", "fbl", "params", "lockins", "snap", "add"} \cup ArPcs
LoopPcs == {"for", "while", "for_slow", "set_slow"}
ProloguePcs == {"create", "open", "t0", "tinit"}

\* The statements of a mode that its try statement encloses.
InTry(m, at) ==
    IF m = "megasweep" THEN at \notin {"t0", "create"} ELSE TRUE

\* Interrupt with the record in progress flushed to the datasaver on the way out
M_InterruptFlushes ==
    /\ mode \in RunModes
    /\ pc \in ProloguePcs \cup LoopPcs \cup StepPcs
    /\ ghost' = [ghost EXCEPT !.cut = pc]
    /\ IF InTry(mode, pc)
         THEN /\ session' = Exited([session EXCEPT !.results =
                                     IF pc \in StepPcs THEN Append(@, data) ELSE @])
              /\ outcome' = Reported([outcome EXCEPT !.state = "interrupted"])
              /\ pc' = IF t0 = Unset THEN "raised" ELSE "returned"
         ELSE /\ outcome' = [outcome EXCEPT !.state = "interrupted",
                                            !.raised = "KeyboardInterrupt"]
              /\ pc' = "raised"
              /\ UNCHANGED session
    /\ UNCHANGED <<registry, mode, args, loop, now, t0, t, data, schema, ar>>

\* KeyboardInterrupt raised while the statement at pc runs: inside the try it
\* leaves the with block, is caught (print('Interrupted.')) and the duration
\* is printed; outside the try it leaves the method.
Interrupt ==
    /\ mode \in RunModes
    /\ pc \in ProloguePcs \cup LoopPcs \cup StepPcs
    /\ ghost' = [ghost EXCEPT !.cut = pc]
    /\ IF InTry(mode, pc)
         THEN /\ session' = Exited(session)
              /\ outcome' = Reported([outcome EXCEPT !.state = "interrupted"])
              /\ pc' = IF t0 = Unset THEN "raised" ELSE "returned"
         ELSE /\ outcome' = [outcome EXCEPT !.state = "interrupted",
                                            !.raised = "KeyboardInterrupt"]
              /\ pc' = "raised"
              /\ UNCHANGED session
    /\ UNCHANGED <<registry, mode, args, loop, now, t0, t, data, schema, ar>>

\* The statement at pc reads or writes an instrument.
DoesIO ==
    \/ pc \in {"set", "set_slow", "snap"} \cup ArPcs
    \/ pc = "fbl" /\ fbl # None
    \/ pc = "params" /\ loop.p < Len(params) /\ params[loop.p + 1][1] \notin ListObjs

\* An instrument error handled like a KeyboardInterrupt: caught after the with
\* block, the duration printed, the method returning normally
M_IOFailureCaught ==
    /\ DoesIO
    /\ ghost' = [ghost EXCEPT !.cut = pc]
    /\ session' = Exited(session)
    /\ outcome' = Reported([outcome EXCEPT !.state = "failed"])
    /\ pc' = "returned"
    /\ UNCHANGED <<registry, mode, args, loop, now, t0, t, data, schema, ar>>

\* An instrument read or write raises: no handler of the module catches it,
\* the with block is left and the exception leaves the method.
IOFailure ==
    /\ DoesIO
    /\ ghost' = [ghost EXCEPT !.cut = pc]
    /\ session' = Exited(session)
    /\ outcome' = [outcome EXCEPT !.state = "failed", !.raised = "IOError"]
    /\ pc' = "raised"
    /\ UNCHANGED <<registry, mode, args, loop, now, t0, t, data, schema, ar>>

\* An operation the object at hand does not support raises: p.get() on a
\* list (AttributeError), x / gain with a string gain after the snap
\* (TypeError); no handler catches it, the with block is left and the
\* exception leaves the method.
Unsupported ==
    \/ pc = "params" /\ loop.p < Len(params) /\ params[loop.p + 1][1] \in ListObjs
    \/ pc = "snap" /\ sr830s[loop.l][2] = NameGain

TypeFault ==
    /\ Unsupported
    /\ ghost' = [ghost EXCEPT !.cut = pc]
    /\ session' = Exited(session)
    /\ outcome' = [outcome EXCEPT
                     !.state = "crashed",
                     !.raised = IF pc = "snap" THEN "TypeError" ELSE "AttributeError"]
    /\ pc' = "raised"
    /\ UNCHANGED <<registry, mode, args, loop, now, t0, t, data, schema, ar>>

\* ------------------------------------------------------------------ Next
Next ==
    \/ \E p \in ParamIds, g \in Gains : FollowParam(p, g)
    \/ \E l \in LockinIds, g \in LockinGains, a \in BOOLEAN : FollowSr830(l, g, a)
    \/ \E c \in ChannelLists, g \in GainLists : FollowFbl("FBL", c, g)
    \/ \E v \in ValSeqs, d \in SweepDelays : StartSweep("Vg", v, d)
    \/ \E D \in OptArgs, d \in WatchDelays : StartWatch(D, d)
    \/ \E vf \in MegaSeqs, vs \in MegaSeqs, d \in MegaDelays :
         StartMegasweep("s_fast", vf, "s_slow", vs, d)
    \/ \E l \in LockinIds, m \in 1..MaxArg : StartAutorange(l, m)
    \/ \E ps \in Sweep1dParams, r \in Sweep1dRanges, d \in Sweep1dDelays :
         Sweep1d("Vg", r[1], r[2], r[3], d, ps)
    \/ Create
    \/ Open
    \/ ReadT0
    \/ WatchInitT
    \/ SweepFor
    \/ WatchWhile
    \/ MegaForSlow
    \/ MegaSetSlow
    \/ MegaForFast
    \/ ReadT
    \/ SetParam
    \/ Delay
    \/ ReadFbl
    \/ ReadParams
    \/ Lockins
    \/ Snap
    \/ AddResult
    \/ ArCheck
    \/ ArIncrement
    \/ ArDecrement
    \/ ArSettle
    \/ Close
    \/ Interrupt
    \/ IOFailure
    \/ TypeFault

Spec == Init /\ [][Next]_vars

\* ============================================================ properties
Ended == pc \in {"returned", "raised"}
Results == session.results

\* Steps whose setpoint/time was taken so far (loop iterations entered).
StepsStarted ==
    CASE mode = "megasweep" ->
           IF loop.i = 0 THEN 0 ELSE (loop.i - 1) * Len(args.v_fast) + loop.j
      [] OTHER -> loop.i

\* The statement the run is at, or was at when an exception ended it.
Position == IF Ended THEN ghost.cut ELSE pc

\* Steps that ran to the end of their add_result.
StepsCompleted == IF Position \in StepPcs THEN StepsStarted - 1 ELSE StepsStarted

\* Entries of a record of the running mode: the setpoints and 'time', then
\* the values of everything the mode's step reads.
HeaderLen == CASE mode = "sweep" -> 2 [] mode = "watch" -> 1 [] OTHER -> 3
ReadsFbl(m) == \E k \in 1..Len(StepOrder(m)) : StepOrder(m)[k] = "fbl"
FullLen ==
    HeaderLen + Len(params) + 2 * Len(sr830s)
    + (IF ReadsFbl(mode) /\ fbl # None THEN 2 * Len(fbl_channels) ELSE 0)

\* The slow and fast positions of the k-th step of a megasweep.
SlowOf(k) == ((k - 1) \div Len(args.v_fast)) + 1
FastOf(k) == ((k - 1) % Len(args.v_fast)) + 1

\* The setpoint entries the k-th record of the run has to carry.
SetpointsOf(k) ==
    CASE mode = "sweep" -> <<<<ParamId(args.set_param), args.vals[k]>>>>
      [] mode = "megasweep" ->
           <<<<ParamId(args.s_slow), args.v_slow[SlowOf(k)]>>,
             <<ParamId(args.s_fast), args.v_fast[FastOf(k)]>>>>
      [] OTHER -> << >>

CarriesSetpoints(k) ==
    \A n \in 1..Len(SetpointsOf(k)) : Results[k][n] = SetpointsOf(k)[n]

\* C1: an uninterrupted, failure-free sweep(set_param, vals) ends with exactly
\* len(vals) records, and the setpoint of the i-th record is the i-th element
\* of vals.
C1_SweepEmitsValsInOrder ==
    (mode = "sweep" /\ pc = "returned" /\ outcome.state = "completed") =>
        /\ Len(Results) = Len(args.vals)
        /\ \A i \in 1..Len(args.vals) :
             Results[i][1] = <<ParamId(args.set_param), args.vals[i]>>

C1_Witness ==
    /\ mode = "sweep" /\ pc = "returned" /\ outcome.state = "completed"
    /\ Len(args.vals) = 2 /\ args.vals[1] > args.vals[2]
    /\ Followed = 2
    /\ Len(Results) = 2

\* C2: an uninterrupted, failure-free megasweep ends with exactly
\* len(v_slow) * len(v_fast) records in row-major order: the k-th record
\* carries the slow value of row (k-1) div len(v_fast) and the fast value of
\* column (k-1) mod len(v_fast).
C2_MegasweepRowMajor ==
    (mode = "megasweep" /\ pc = "returned" /\ outcome.state = "completed") =>
        /\ Len(Results) = Len(args.v_slow) * Len(args.v_fast)
        /\ \A k \in 1..Len(Results) : CarriesSetpoints(k)

C2_Witness ==
    /\ mode = "megasweep" /\ pc = "returned" /\ outcome.state = "completed"
    /\ args.v_slow = <<2, 1>> /\ args.v_fast = <<1, 2>>
    /\ Len(Results) = 4
    /\ Followed >= 1

\* C3: a KeyboardInterrupt that arrives while step k+1 of a sweep, watch or
\* megasweep is in progress leaves the session closed with exactly the k
\* records of the completed steps, in order, each of them complete; nothing
\* of step k+1 is in the dataset.
C3_InterruptKeepsCompletedSteps ==
    (mode \in RunModes /\ outcome.state = "interrupted" /\ ghost.cut \in StepPcs) =>
        /\ session.state = "closed"
        /\ Len(Results) = StepsStarted - 1
        /\ \A k \in 1..Len(Results) :
             /\ Len(Results[k]) = FullLen
             /\ CarriesSetpoints(k)

C3_Witness ==
    /\ mode = "sweep" /\ outcome.state = "interrupted"
    /\ ghost.cut = "snap"
    /\ StepsStarted = 2
    /\ Len(data) > HeaderLen
    /\ Len(Results) = 1

\* The statement at `at` of mode m comes after the with statement was entered.
PastOpen(m, at) == at \notin {"create", "open"} /\ ~(m = "megasweep" /\ at = "t0")

\* C4: in each mode the session is opened at most once, add_result is called
\* only while it is open and once per completed step, and a run that got as
\* far as opening it (values exhausted, time bound exceeded, or an exception
\* after the open) ends with the session closed exactly once; a run cut
\* before the open never opens it.
C4_SessionOpenedAndClosedOnce ==
    mode \in RunModes =>
        /\ session.opens <= 1
        /\ session.closes <= session.opens
        /\ session.strays = 0
        /\ Len(Results) = StepsCompleted
        /\ (session.state = "open") = (session.opens = 1 /\ session.closes = 0)
        /\ (~Ended /\ PastOpen(mode, pc)) => session.state = "open"
        /\ Ended =>
             IF outcome.state = "completed" \/ PastOpen(mode, ghost.cut)
               THEN session.opens = 1 /\ session.closes = 1
               ELSE session.opens = 0 /\ session.closes = 0

C4_Witness ==
    /\ mode = "watch" /\ Ended /\ outcome.state = "interrupted"
    /\ ghost.cut = "add"
    /\ session.closes = 1
    /\ Len(Results) = 1

\* C5: in each mode a KeyboardInterrupt arriving at any point of the run,
\* schema construction and session opening included, is recovered inside the
\* method: the run ends Interrupted, reports an elapsed duration and returns
\* without raising; a completed run reports an elapsed duration too.
C5_InterruptAlwaysRecovered ==
    (mode \in RunModes /\ Ended /\ outcome.state \in {"interrupted", "completed"}) =>
        /\ pc = "returned"
        /\ outcome.raised = None
        /\ outcome.elapsed # Unset

\* C6: one call of _autorange_srs never issues more than max_changes
\* sensitivity adjustments, and when every check finds R above 0.9 * sens and
\* every increment is accepted it issues exactly max_changes increments.
C6_AtMostMaxChangesRequests ==
    /\ ar.state # "idle" => ar.reqs <= ar.max
    /\ (ar.state = "returned" /\ ar.allHigh) => ar.reqs = ar.max

\* C7: _autorange_srs returns when the first of these occurs: the magnitude
\* is in band, a request is rejected, or max_changes adjustments have been
\* made; so no request is issued once max_changes adjustments were accepted,
\* and a return always has one of the three causes.
C7_ReturnsAtFirstStopCondition ==
    /\ pc \in {"ar_inc", "ar_dec"} => ar.reqs < ar.max
    /\ ar.state = "returned" =>
         \/ ar.last \in {"in_band", "rejected"}
         \/ ar.sets >= ar.max

\* C8 (as claimed): an uninterrupted watch emits at least one record for
\* every max_duration, 0 included.
C8_WatchAlwaysEmitsOne ==
    (mode = "watch" /\ pc = "returned" /\ outcome.state = "completed") =>
        Len(Results) >= 1

\* C8 (amended): the bound is tested before the first iteration too, against
\* the elapsed time read before the loop: an uninterrupted watch emits at
\* least one record exactly when max_duration exceeds that first reading,
\* and none when max_duration is 0.
C8_WatchEmitsOneIffBoundAboveFirstReading ==
    (mode = "watch" /\ pc = "returned" /\ outcome.state = "completed") =>
        /\ (Len(Results) >= 1) =
             (args.max_duration = Unset \/ ghost.tInit < args.max_duration)
        /\ args.max_duration = 0 => Len(Results) = 0

C8_Witness ==
    /\ mode = "watch" /\ pc = "returned" /\ outcome.state = "completed"
    /\ args.max_duration = 1 /\ args.inter_delay = 2
    /\ Len(Results) >= 1

\* C9: with a finite max_duration D and every iteration taking the sample
\* delay d, the elapsed time E when the watch loop exits satisfies
\* D <= E <= D + d.
C9_WatchOvershootsAtMostOneSample ==
    (/\ mode = "watch" /\ pc = "close"
     /\ args.max_duration # Unset /\ args.inter_delay # Unset
     /\ ~ghost.settled) =>
        /\ args.max_duration <= now - t0
        /\ now - t0 <= args.max_duration + args.inter_delay

\* How often identity id occurs in a record, handle h in a registry list and
\* channel c in the followed channel list.
Count(rec, id) == Cardinality({n \in 1..Len(rec) : rec[n][1] = id})
Entries(seq, h) == Cardinality({n \in 1..Len(seq) : seq[n][1] = h})
ChannelUses(c) == Cardinality({n \in 1..Len(fbl_channels) : fbl_channels[n] = c})

\* C10: in all three modes every emitted record holds one value per followed
\* parameter, an X and a Y per followed lock-in and a (radius, phase) pair
\* per channel of a followed channel set.
C10_EveryFollowedEntityInEveryRecord ==
    mode \in RunModes =>
        \A k \in 1..Len(Results) :
            /\ \A p \in ParamIds :
                 Count(Results[k], ParamId(p)) = Entries(params, p)
            /\ \A l \in LockinIds :
                 /\ Count(Results[k], XId(l)) = Entries(sr830s, l)
                 /\ Count(Results[k], YId(l)) = Entries(sr830s, l)
            /\ fbl # None =>
                 \A n \in 1..Len(fbl_channels) :
                    /\ Count(Results[k], FblId(fbl_channels[n], "_r"))
                         = ChannelUses(fbl_channels[n])
                    /\ Count(Results[k], FblId(fbl_channels[n], "_p"))
                         = ChannelUses(fbl_channels[n])

\* The identities the schema of the run declares.
SchemaIds == {schema[m].id : m \in 1..Len(schema)}

\* C11: every identity of every emitted record, in any mode, is one that
\* _create_measurement registered for the run.
C11_RecordIdsAreRegistered ==
    mode \in RunModes =>
        \A k \in 1..Len(Results) :
            \A n \in 1..Len(Results[k]) : Results[k][n][1] \in SchemaIds

\* C13: no read of a lock-in (the next check of _autorange_srs or the snap of
\* the step) follows an accepted adjustment without the settling sleep in
\* between, the last adjustment of a call included.
C13_SettleAfterEveryAdjustment ==
    pc \in {"ar_check", "snap"} =>
        ~(ar.state = "returned" /\ ar.last = "exhausted")

\* The entries a channel set followed by the run adds to a record.
FblLen == IF fbl # None THEN 2 * Len(fbl_channels) ELSE 0

\* C14: every mode samples in the same order: channel set, then the
\* parameters in registration order, then the lock-ins in registration order,
\* then the record is emitted; the record in progress grows accordingly.
C14_SameOrderInEveryMode ==
    mode \in RunModes =>
        /\ pc = "fbl" => Len(data) = HeaderLen
        /\ pc = "params" => Len(data) = HeaderLen + FblLen + loop.p
        /\ pc = "lockins" =>
             Len(data) = HeaderLen + FblLen + Len(params) + 2 * loop.l
        /\ pc = "add" =>
             Len(data) = HeaderLen + FblLen + Len(params) + 2 * Len(sr830s)

\* C16: the schema declares the independent entities and 'time' first and
\* without setpoints, and every dependent channel after them (parameters,
\* lock-in X and Y, radius and phase of each channel) is indexed by the
\* independent entities in the given order followed by 'time'.
C16_DependentsShareSetpoints ==
    (mode \in RunModes /\ schema # << >>) =>
        LET n == Len(SetParams) IN
        /\ \A m \in 1..n : schema[m] = Reg(ParamId(SetParams[m]), << >>)
        /\ schema[n + 1] = Reg(TimeId, << >>)
        /\ \A m \in (n + 2)..Len(schema) :
             schema[m].setpoints =
                 [k \in 1..n |-> ParamId(SetParams[k])] \o <<TimeId>>

\* C18: no record handed to add_result holds the same identity twice,
\* whatever follow_* calls built the registry.
C18_RecordIdsUnique ==
    mode \in RunModes =>
        \A k \in 1..Len(Results) :
            \A n, m \in 1..Len(Results[k]) :
                n # m => Results[k][n][1] # Results[k][m][1]

\* The gain each entry of a record of the running mode was divided by: 1 for
\* the setpoints, 'time' and the phases, the configured gain for the rest.
FblGains ==
    IF fbl = None THEN << >>
    ELSE Flatten([k \in 1..Len(fbl_channels) |->
                    <<IF fbl_gains # NoGains THEN fbl_gains[k] ELSE 1, 1>>])
ParamGains == [k \in 1..Len(params) |-> params[k][2]]
Sr830Gains == Flatten([k \in 1..Len(sr830s) |-> <<sr830s[k][2], sr830s[k][2]>>])
PhaseGains(ph) ==
    CASE ph = "fbl" -> FblGains
      [] ph = "params" -> ParamGains
      [] ph = "lockins" -> Sr830Gains
      [] OTHER -> << >>
RecordGains ==
    [k \in 1..HeaderLen |-> 1]
    \o Flatten([k \in 1..Len(StepOrder(mode)) |-> PhaseGains(StepOrder(mode)[k])])

\* C12: every recorded value times the gain of its entity is the raw reading:
\* parameters and lock-in X and Y are divided by their gain, a channel
\* magnitude by the gain at its channel's position when gains are configured,
\* and phases, setpoints and 'time' are recorded as they are; of two readings
\* with the same raw value, the one with twice the gain holds half the value.
C12_RecordedIsRawOverGain ==
    (mode \in RunModes /\ Len(Results) > 0) =>
        LET gains == RecordGains IN
        \A k \in 1..Len(Results) :
            LET rec == Results[k]
                raw == ghost.raws[k]
            IN /\ Len(raw) = Len(rec)
               /\ Len(gains) = Len(rec)
               /\ \A n \in 1..Len(rec) : rec[n][2] * gains[n] = raw[n]
               /\ \A n, m \in (HeaderLen + 1)..Len(rec) :
                    (gains[m] = 2 * gains[n] /\ raw[n] = raw[m]) =>
                        2 * rec[m][2] = rec[n][2]

C12_Witness ==
    /\ mode = "sweep" /\ pc = "returned" /\ outcome.state = "completed"
    /\ params = <<<<"p1", 1>>, <<"p1", 2>>>>
    /\ Len(Results) >= 1
    /\ Results[1][3][2] = 4 /\ Results[1][4][2] = 2

\* The statements of a step that run after its setpoint was applied.
AfterSet == StepPcs \ {"t", "set"}

\* C15 as stated: in every Interrupted end state of a sweep or megasweep the
\* driving entity was set as many times as records were emitted.
C15_InterruptOnlyBetweenSteps ==
    (mode \in {"sweep", "megasweep"} /\ outcome.state = "interrupted") =>
        ghost.sets = Len(Results)

\* C15: a KeyboardInterrupt can end a sweep or megasweep at any statement;
\* the driving entity was then set as many times as records were emitted,
\* or once more, and once more exactly when the interrupt came in a step
\* after its setpoint was applied.
C15_InterruptAbandonsAtMostOneSetpoint ==
    (mode \in {"sweep", "megasweep"} /\ outcome.state = "interrupted") =>
        ghost.sets = Len(Results) + (IF ghost.cut \in AfterSet THEN 1 ELSE 0)

C15_Witness ==
    /\ mode = "sweep" /\ outcome.state = "interrupted"
    /\ ghost.cut = "params"
    /\ ghost.sets = 2
    /\ Len(Results) = 1

\* The setpoint values the loop variables of the step in progress hold.
LoopSetpoints ==
    IF mode = "sweep" THEN <<args.vals[loop.i]>>
    ELSE <<args.v_slow[loop.i], args.v_fast[loop.j]>>

\* The setpoint values last applied to the set entities.
AppliedSetpoints ==
    IF mode = "sweep" THEN <<ghost.inForce>>
    ELSE <<ghost.slowInForce, ghost.inForce>>

\* C19: in sweep and megasweep the values last applied to the set entities
\* are those of the step in progress whenever that step delays, reads or
\* emits; every record carries the values that were applied when its step
\* read; the driving entity is set once per step before any read of the step;
\* and the slow entity of a megasweep was set once per outer iteration
\* entered, whether or not the row has inner steps.
C19_RecordsCarrySetpointsInForce ==
    mode \in {"sweep", "megasweep"} =>
        /\ Position \in AfterSet =>
             /\ AppliedSetpoints = LoopSetpoints
             /\ ghost.sets = StepsStarted
        /\ Position \in {"t", "set"} => ghost.sets = StepsStarted - 1
        /\ \A k \in 1..Len(Results) :
             /\ CarriesSetpoints(k)
             /\ \A n \in 1..(HeaderLen - 1) : Results[k][n][2] = ghost.raws[k][n]
        /\ mode = "megasweep" =>
             ghost.slowSets = IF Position = "set_slow" THEN loop.i - 1 ELSE loop.i

C19_Witness ==
    /\ mode = "megasweep" /\ pc = "add"
    /\ loop.i = 2 /\ loop.j = 1
    /\ args.v_slow = <<2, 1>> /\ args.v_fast = <<1, 2>>
    /\ ghost.slowSets = 2 /\ ghost.slowInForce = 1 /\ ghost.inForce = 1
    /\ Len(Results) = 2

\* C17: when an instrument read or write of a step raises, the exception
\* leaves sweep, watch or megasweep (no handler, no final report), nothing
\* more runs, the session is closed exactly once, and it holds exactly the
\* complete records of the steps finished before the failing one.
C17_IOFailurePropagates ==
    (mode \in RunModes /\ outcome.state = "failed") =>
        /\ pc = "raised"
        /\ outcome.raised = "IOError"
        /\ outcome.elapsed = Unset
        /\ ~ENABLED Next
        /\ session.state = "closed" /\ session.opens = 1 /\ session.closes = 1
        /\ session.strays = 0
        /\ Len(Results) = (IF ghost.cut \in StepPcs THEN StepsStarted - 1
                                                    ELSE StepsStarted)
        /\ \A k \in 1..Len(Results) :
             /\ Len(Results[k]) = FullLen
             /\ CarriesSetpoints(k)

C17_Witness ==
    /\ mode = "sweep" /\ outcome.state = "failed"
    /\ ghost.cut = "snap"
    /\ loop.i = 2
    /\ Len(Results) = 1
    /\ session.closes = 1

\* C20: after sweep1d has classified its params, every lock-in among them
\* is a followed lock-in with a numeric gain, every list headed by the
\* multiplexer is the followed channel set with its remaining elements as
\* channel ids and is not a plain parameter, everything else is a plain
\* parameter with gain 1.0, and a single-axis sweep of instr is running.
C20_Sweep1dClassifiesByKind ==
    Len(args.params) > 0 =>
        /\ mode = "sweep"
        /\ \A n \in 1..Len(args.params) :
             LET p == args.params[n] IN
             CASE p \in LockinIds ->
                    \E k \in 1..Len(sr830s) :
                        sr830s[k][1] = p /\ sr830s[k][2] # NameGain
               [] p \in ListObjs ->
                    /\ fbl = Items(p)[1]
                    /\ fbl_channels = Tail(Items(p))
                    /\ \A k \in 1..Len(params) : params[k][1] # p
               [] OTHER ->
                    \E k \in 1..Len(params) : params[k] = <<p, DefaultGain>>

====
